---- MODULE Spec2Model ----
(***************************************************************************)
(* Model of Widget_Classes.py: the gauge widgets (Temp_Gauge, Tachometer,  *)
(* Fuel_Gauge, Speedometer), which hold value / max_value and wrap with    *)
(* Python's %, and the Variable_Section widget with its two-step RPM bound *)
(* entry (update_two_step / move_two_step / change_widget).                *)
(*                                                                         *)
(* One gauge instance is modelled; its class and its constructor argument  *)
(* max_value are drawn in InitGauge (the four classes share no state).     *)
(* Floating point expressions of paintEvent are modelled as exact          *)
(* fractions [num, den] with den > 0; pixel geometry, which depends on the *)
(* surface size only, is left out of the draw commands.                    *)
(***************************************************************************)
EXTENDS Integers, Sequences, FiniteSets, TLC

VARIABLES
    gauge_class,                   \* which gauge class the instance is
    value,                         \* self.value of the gauge
    max_value,                     \* self.max_value of the gauge
    base_value,                    \* self.value as __init__ or the last update_value left it
    added,                         \* the sum of the changes add_to_value has applied since
    current_widget,                \* Variable_Section.current_widget
    new_two_step_bounds,           \* [upper, lower], a Python list of two ints
    selected_two_step_digit,       \* the cursor, an entry of two_step_digit_list
    two_step_bound,                \* "Upper" or "Lower"
    two_step_current_digit_values, \* the four digits being edited
    two_step_value_up,             \* set to True by __init__ and by the reset
    two_step_bad_input,            \* the invalid flag
    advances,                      \* move_two_step calls since __init__ or the last reset
    modes,                         \* Menu.modes, a Python list of strings
    num_of_modes,                  \* Menu.num_of_modes
    state,                         \* Menu.state
    call,                          \* the last handler the host called, with its argument
    raised,                        \* the exception the last handler left with, or "none"
    printed,                       \* what the last handler wrote with print()
    update_requests,               \* how many times the last handler called self.update()
    drawn                          \* the draw commands the last handler issued

gaugeVars == <<gauge_class, value, max_value, base_value, added>>
sessionVars == <<new_two_step_bounds, selected_two_step_digit, two_step_bound,
                 two_step_current_digit_values, two_step_value_up, two_step_bad_input>>
sectionVars == <<current_widget, new_two_step_bounds, selected_two_step_digit,
                 two_step_bound, two_step_current_digit_values, two_step_value_up,
                 two_step_bad_input>>
menuVars == <<modes, num_of_modes, state>>
traceVars == <<call, raised, printed, update_requests, drawn>>
vars == <<gauge_class, value, max_value, base_value, added, current_widget, new_two_step_bounds,
          selected_two_step_digit, two_step_bound, two_step_current_digit_values,
          two_step_value_up, two_step_bad_input, advances, modes, num_of_modes,
          state, call, raised, printed, update_requests, drawn>>

(***************************************************************************)
(* Bounds of the model.                                                    *)
(***************************************************************************)
\* gauges are constructed with max_value in -MaxMaxValue .. MaxMaxValue
MaxMaxValue == 4
\* add_to_value / update_value are called with arguments in -MaxArg .. MaxArg
MaxArg == 5
\* under SpecGauge add_to_value is explored while the sum of the changes since
\* the last update_value stays within -MaxAdded .. MaxAdded
MaxAdded == 6
\* under SpecTwoStep a two-step session is explored while the cyclic distance of its digits
\* (those of the captured upper bound and those being edited) from 0 stays
\* within MaxEffort
MaxEffort == 3
\* the same measure for SpecEntry, where the host only enters digits,
\* confirms and re-opens the mode
MaxEntryEffort == 6
\* move_two_step is explored while it has been called fewer than MaxAdvances
\* times since the two-step fields were last given their initial values
MaxAdvances == 11
\* a Menu is constructed with a list of at most MaxModes modes
MaxModes == 3

GaugeClasses == {"Temp_Gauge", "Tachometer", "Fuel_Gauge", "Speedometer"}
MaxValueInputs == (0 - MaxMaxValue)..MaxMaxValue
ArgInputs == (0 - MaxArg)..MaxArg

NoCall == [op |-> "__init__", arg |-> "none"]

(***************************************************************************)
(* Python arithmetic.                                                      *)
(***************************************************************************)
\* A remainder that takes the sign of the dividend, as C's % does.
TruncMod(a, b) ==
    LET aa == IF a < 0 THEN 0 - a ELSE a
        bb == IF b < 0 THEN 0 - b ELSE b
    IN  IF a < 0 THEN 0 - (aa % bb) ELSE aa % bb

\* Python's a % b for b # 0: the result has the sign of the divisor.
PyMod(a, b) ==
    IF b > 0 THEN a % b ELSE 0 - ((0 - a) % (0 - b))

\* n / d for d > 0 rounded to the nearest integer, halves away from zero.
RoundInt(n, d) ==
    IF n >= 0 THEN (2 * n + d) \div (2 * d) ELSE 0 - ((2 * (0 - n) + d) \div (2 * d))

\* int(n / d) for d > 0: Python's int() truncates toward zero.
PyInt(n, d) ==
    IF n >= 0 THEN n \div d ELSE 0 - ((0 - n) \div d)

\* The exact value n / d of a float expression, d # 0, kept with den > 0.
Frac(n, d) ==
    IF d > 0 THEN [num |-> n, den |-> d] ELSE [num |-> 0 - n, den |-> 0 - d]

FracLess(p, q) == p.num * q.den < q.num * p.den
FracEq(p, q) == p.num * q.den = q.num * p.den

\* A draw command: the QPainter call, the layer it belongs to, and the
\* argument of the call that depends on the gauge state.
Cmd(op, layer, arg) == [op |-> op, layer |-> layer, arg |-> arg]
NoArg == Frac(0, 1)

(***************************************************************************)
(* The gauges.                                                             *)
(***************************************************************************)
\* the recognised modes, self.widget_types
widget_types == {"Startup", "Competition", "Rear Steer", "Two-Step", "Lap Time"}

\* self.two_step_digit_list, the order of the cursor
two_step_digit_list ==
    <<"first_digit", "second_digit", "third_digit", "forth_digit", "rmp_digit">>

\* the values __init__ and change_widget("Two-Step") give the two-step fields
TwoStepDefaults ==
    [ bounds    |-> <<0, 0>>,
      digit     |-> "first_digit",
      bound     |-> "Upper",
      values    |-> <<0, 0, 0, 0>>,
      value_up  |-> TRUE,
      bad_input |-> FALSE ]

\* the two-step fields of the widget, as one record
Session ==
    [ bounds    |-> new_two_step_bounds,
      digit     |-> selected_two_step_digit,
      bound     |-> two_step_bound,
      values    |-> two_step_current_digit_values,
      value_up  |-> two_step_value_up,
      bad_input |-> two_step_bad_input ]

\* the two-step fields after the handler: s
SetSession(s) ==
    /\ new_two_step_bounds' = s.bounds
    /\ selected_two_step_digit' = s.digit
    /\ two_step_bound' = s.bound
    /\ two_step_current_digit_values' = s.values
    /\ two_step_value_up' = s.value_up
    /\ two_step_bad_input' = s.bad_input

\* Variable_Section.__init__
InitSection ==
    /\ current_widget = "Startup"
    /\ new_two_step_bounds = TwoStepDefaults.bounds
    /\ selected_two_step_digit = TwoStepDefaults.digit
    /\ two_step_bound = TwoStepDefaults.bound
    /\ two_step_current_digit_values = TwoStepDefaults.values
    /\ two_step_value_up = TwoStepDefaults.value_up
    /\ two_step_bad_input = TwoStepDefaults.bad_input

InitTrace ==
    /\ base_value = 0
    /\ added = 0
    /\ advances = 0
    /\ call = NoCall
    /\ raised = "none"
    /\ printed = <<>>
    /\ update_requests = 0
    /\ drawn = <<>>

\* Menu.__init__ with the default modes=[]
DefaultMenu ==
    /\ modes = <<>>
    /\ num_of_modes = 0
    /\ state = "Startup"

\* __init__ of a gauge: value = 0 and max_value as given; nothing is checked
InitGauge ==
    /\ gauge_class \in GaugeClasses
    /\ max_value \in MaxValueInputs
    /\ value = 0
    /\ InitSection
    /\ InitTrace
    /\ DefaultMenu

\* add_to_value without the call of self.update()
add_to_value_no_update(change) ==
    /\ call' = [op |-> "add_to_value", arg |-> change]
    /\ IF max_value + 1 = 0
       THEN /\ raised' = "ZeroDivisionError"
            /\ UNCHANGED <<value, added>>
       ELSE /\ value' = PyMod(value + change, max_value + 1)
            /\ added' = added + change
            /\ raised' = "none"
    /\ update_requests' = 0
    /\ printed' = <<>>
    /\ drawn' = <<>>
    /\ UNCHANGED <<gauge_class, max_value, base_value, sectionVars, advances, menuVars>>

\* self.value = (self.value + change) % (self.max_value + 1); self.update()
add_to_value(change) ==
    /\ call' = [op |-> "add_to_value", arg |-> change]
    /\ IF max_value + 1 = 0
       THEN /\ raised' = "ZeroDivisionError"
            /\ update_requests' = 0
            /\ UNCHANGED <<value, added>>
       ELSE /\ value' = PyMod(value + change, max_value + 1)
            /\ added' = added + change
            /\ raised' = "none"
            /\ update_requests' = 1
    /\ printed' = <<>>
    /\ drawn' = <<>>
    /\ UNCHANGED <<gauge_class, max_value, base_value, sectionVars, advances, menuVars>>

\* self.value = new_value % (self.max_value + 1); self.update()
update_value(new_value) ==
    /\ call' = [op |-> "update_value", arg |-> new_value]
    /\ IF max_value + 1 = 0
       THEN /\ raised' = "ZeroDivisionError"
            /\ update_requests' = 0
            /\ UNCHANGED <<value, base_value, added>>
       ELSE /\ value' = PyMod(new_value, max_value + 1)
            /\ base_value' = value'
            /\ added' = 0
            /\ raised' = "none"
            /\ update_requests' = 1
    /\ printed' = <<>>
    /\ drawn' = <<>>
    /\ UNCHANGED <<gauge_class, max_value, sectionVars, advances, menuVars>>

\* arc_value = -1 * ((self.value / (self.max_value*.5)) * 90), in degrees
ArcValue == Frac((0 - 180) * value, max_value)

\* the arc value handed on without the test against -90
ArcSpanUnclamped == ArcValue

\* the span handed to drawArc for the fill, in degrees:
\* if arc_value < -90: -90 else: arc_value
ArcSpan ==
    IF FracLess(ArcValue, Frac(0 - 90, 1)) THEN Frac(0 - 90, 1) ELSE ArcValue

\* drawArc takes its angles in sixteenths of a degree: arc_value * 16
Sixteenths(f) == Frac(f.num * 16, f.den)

\* the grey backing: the quarter arc and the straight run
TachometerBacking ==
    << Cmd("drawArc", "backing", Sixteenths(Frac(90, 1))),
       Cmd("drawLine", "backing", Frac(1, 1)) >>

\* the fill: the arc, and past half scale the line of
\* (value - max_value*.5) / (max_value*.5) size factors
TachometerFill ==
    << Cmd("drawArc", "fill", Sixteenths(ArcSpan)) >>
    \o (IF 2 * value > max_value
        THEN << Cmd("drawLine", "fill", Frac(2 * value - max_value, max_value)) >>
        ELSE << >>)

Tick == Cmd("drawLine", "tick", NoArg)
Label(n) == Cmd("drawText", "label", Frac(n, 1))

\* the tick marks and their labels, in the order paintEvent draws them
TachometerTicks ==
    << Tick, Label(max_value),
       Tick,
       Tick, Label(PyInt(max_value * 4, 5)),
       Tick,
       Tick, Label(PyInt(max_value * 3, 5)),
       Tick,
       Tick, Label(PyInt(max_value * 2, 5)),
       Tick,
       Tick, Label(PyInt(max_value * 1, 5)),
       Tick,
       Tick, Label(0) >>

TachometerValueText == << Cmd("drawText", "value_text", Frac(value, 1)) >>

\* Tachometer.paintEvent: with max_value = 0 the division of the fill arc
\* raises after the backing has been drawn
TachometerPaint ==
    /\ gauge_class = "Tachometer"
    /\ call' = [op |-> "paintEvent", arg |-> "Tachometer"]
    /\ IF max_value = 0
       THEN /\ raised' = "ZeroDivisionError"
            /\ drawn' = TachometerBacking
       ELSE /\ raised' = "none"
            /\ drawn' = TachometerBacking \o TachometerFill \o TachometerTicks
                            \o TachometerValueText
    /\ printed' = <<>>
    /\ update_requests' = 0
    /\ UNCHANGED <<gaugeVars, sectionVars, advances, menuVars>>

\* Temp_Gauge.paintEvent, the grey backing: the bar, two size factors long
TempGaugeBacking == << Cmd("drawLine", "backing", Frac(2, 1)) >>

\* length = (self.value / (self.max_value*.5)) * size_factor, drawn if >= 0
TempGaugeFill ==
    LET length == Frac(2 * value, max_value)
    IN  IF ~FracLess(length, Frac(0, 1))
        THEN << Cmd("drawLine", "fill", length) >>
        ELSE << >>

\* the tick marks of the Temp_Gauge with each label drawn before its tick
TempGaugeTicksLabelFirst ==
    << Label(max_value), Tick,
       Tick,
       Label(PyInt(max_value * 4, 5)), Tick,
       Tick,
       Label(PyInt(max_value * 3, 5)), Tick,
       Tick,
       Label(PyInt(max_value * 2, 5)), Tick,
       Tick,
       Label(PyInt(max_value * 1, 5)), Tick,
       Tick,
       Label(0), Tick >>

\* the tick marks and their labels, in the order paintEvent draws them
TempGaugeTicks ==
    << Tick, Label(max_value),
       Tick,
       Tick, Label(PyInt(max_value * 4, 5)),
       Tick,
       Tick, Label(PyInt(max_value * 3, 5)),
       Tick,
       Tick, Label(PyInt(max_value * 2, 5)),
       Tick,
       Tick, Label(PyInt(max_value * 1, 5)),
       Tick,
       Tick, Label(0) >>

\* the bottom circle, the value and the unit
TempGaugeReadout ==
    << Cmd("drawEllipse", "bulb", NoArg),
       Cmd("drawText", "value_text", Frac(value, 1)),
       Cmd("drawText", "unit", "C") >>

\* Temp_Gauge.paintEvent: with max_value = 0 the division of the fill
\* raises after the backing has been drawn
TempGaugePaint ==
    /\ gauge_class = "Temp_Gauge"
    /\ call' = [op |-> "paintEvent", arg |-> "Temp_Gauge"]
    /\ IF max_value = 0
       THEN /\ raised' = "ZeroDivisionError"
            /\ drawn' = TempGaugeBacking
       ELSE /\ raised' = "none"
            /\ drawn' = TempGaugeBacking \o TempGaugeFill \o TempGaugeTicks
                            \o TempGaugeReadout
    /\ printed' = <<>>
    /\ update_requests' = 0
    /\ UNCHANGED <<gaugeVars, sectionVars, advances, menuVars>>

\* Fuel_Gauge.paintEvent, the grey backing: the arc of 200 degrees
FuelGaugeBacking == << Cmd("drawArc", "backing", Sixteenths(Frac(200, 1))) >>

\* arc_value = (self.value / self.max_value) * 200, handed on as arc_value * 16
FuelGaugeFill ==
    << Cmd("drawArc", "fill", Sixteenths(Frac(200 * value, max_value))) >>

\* a tick of the fuel arc: drawArc(arc_rect, angle*16, 1)
ArcTick == Cmd("drawArc", "tick", Frac(1, 1))

\* the nine ticks with "E" after the first and "F" after the last
FuelGaugeTicks ==
    << ArcTick, Cmd("drawText", "label", "E"),
       ArcTick, ArcTick, ArcTick, ArcTick, ArcTick, ArcTick, ArcTick,
       ArcTick, Cmd("drawText", "label", "F") >>

\* f"{int(self.value)}%"
FuelGaugeValueText == << Cmd("drawText", "value_text", Frac(value, 1)) >>

\* Fuel_Gauge.paintEvent: with max_value = 0 the division of the fill
\* raises after the backing has been drawn
FuelGaugePaint ==
    /\ gauge_class = "Fuel_Gauge"
    /\ call' = [op |-> "paintEvent", arg |-> "Fuel_Gauge"]
    /\ IF max_value = 0
       THEN /\ raised' = "ZeroDivisionError"
            /\ drawn' = FuelGaugeBacking
       ELSE /\ raised' = "none"
            /\ drawn' = FuelGaugeBacking \o FuelGaugeFill \o FuelGaugeTicks
                            \o FuelGaugeValueText
    /\ printed' = <<>>
    /\ update_requests' = 0
    /\ UNCHANGED <<gaugeVars, sectionVars, advances, menuVars>>

\* Speedometer.paintEvent: the value and "MPH"
SpeedometerPaint ==
    /\ gauge_class = "Speedometer"
    /\ call' = [op |-> "paintEvent", arg |-> "Speedometer"]
    /\ raised' = "none"
    /\ drawn' = << Cmd("drawText", "value_text", Frac(value, 1)),
                   Cmd("drawText", "unit", "MPH") >>
    /\ printed' = <<>>
    /\ update_requests' = 0
    /\ UNCHANGED <<gaugeVars, sectionVars, advances, menuVars>>

NextGauge ==
    \/ \E change \in ArgInputs :
          /\ added + change \in (0 - MaxAdded)..MaxAdded
          /\ add_to_value(change)
    \/ \E new_value \in ArgInputs : update_value(new_value)
    \/ TempGaugePaint
    \/ TachometerPaint
    \/ FuelGaugePaint
    \/ SpeedometerPaint

SpecGauge == InitGauge /\ [][NextGauge]_vars

\* the max_value a Temp_Gauge gets when none is given
TempGaugeDefaultMax == 300

\* a Temp_Gauge or a Tachometer, constructed with a drawn max_value or with 300
InitTicks ==
    /\ gauge_class \in {"Temp_Gauge", "Tachometer"}
    /\ max_value \in MaxValueInputs \cup {TempGaugeDefaultMax}
    /\ value = 0
    /\ InitSection
    /\ InitTrace
    /\ DefaultMenu

\* the host sets the value and paints
NextTicks ==
    \/ \E new_value \in ArgInputs : update_value(new_value)
    \/ TempGaugePaint
    \/ TachometerPaint

SpecTicks == InitTicks /\ [][NextTicks]_vars

(***************************************************************************)
(* Variable_Section: the mode switch and the two-step entry.               *)
(***************************************************************************)
\* the selectors the host passes to change_widget: the recognised modes and
\* one that is not recognised
WidgetInputs == widget_types \cup {"Diagnostics"}

\* update_two_step is called with +1 (increment) or -1 (decrement)
DigitMoves == {0 - 1, 1}

\* two_step_digit_list.index(d), counted from 1
DigitIndex(d) == CHOOSE i \in 1..Len(two_step_digit_list) : two_step_digit_list[i] = d

\* the digits weighted least significant first
DigitsValueReversed(d) == d[4] * 1000 + d[3] * 100 + d[2] * 10 + d[1]

\* digits[0]*1000 + digits[1]*100 + digits[2]*10 + digits[3]
DigitsValue(d) == d[1] * 1000 + d[2] * 100 + d[3] * 10 + d[4]

\* the comparison the other way round: upper >= lower
BadBoundsFlipped(bounds) == bounds[1] >= bounds[2]

\* the comparison without the equality: lower > upper
BadBoundsStrict(bounds) == bounds[2] > bounds[1]

\* the test of move_two_step that rejects the pair: lower >= upper
BadBounds(bounds) == bounds[2] >= bounds[1]

\* change_widget restoring the defaults on every mode but "Startup"
IsNotStartup(new_widget) == new_widget # "Startup"

\* the test of change_widget that restores the two-step defaults
IsTwoStep(new_widget) == new_widget = "Two-Step"

\* change_widget restoring the defaults but for the invalid flag
ChangeWidgetKeepsFlag(s, new_widget) ==
    IF IsTwoStep(new_widget)
    THEN [TwoStepDefaults EXCEPT !.bad_input = s.bad_input]
    ELSE s

\* the two-step fields after change_widget(new_widget) on the fields s
ChangeWidgetSession(s, new_widget) ==
    IF IsTwoStep(new_widget) THEN TwoStepDefaults ELSE s

\* update_two_step treating "rmp_digit" as the last digit
UpdateTwoStepNoLabel(s, v) ==
    LET i == IF s.digit = "rmp_digit" THEN 4
             ELSE CHOOSE j \in 1..4 : two_step_digit_list[j] = s.digit
    IN  [s EXCEPT !.values[i] = (@ + v) % 10]

\* update_two_step whose "forth_digit" case writes the third digit
UpdateTwoStepWrongSlot(s, v) ==
    IF s.digit = "rmp_digit"
    THEN s
    ELSE IF s.digit = "forth_digit"
    THEN [s EXCEPT !.values[3] = (@ + v) % 10]
    ELSE [s EXCEPT !.values[CHOOSE j \in 1..4 : two_step_digit_list[j] = s.digit] =
                       (@ + v) % 10]

\* the two-step fields after update_two_step(v) on the fields s: the digit
\* under the cursor is changed modulo 10, "rmp_digit" changes nothing
UpdateTwoStepSession(s, v) ==
    IF s.digit = "rmp_digit"
    THEN s
    ELSE [s EXCEPT !.values[DigitIndex(s.digit)] = PyMod(@ + v, 10)]

\* the Upper confirm without the clearing of the digits
ConfirmUpperKeepsDigits(s) ==
    [s EXCEPT !.bounds[1] = s.values[1] * 1000 + s.values[2] * 100
                              + s.values[3] * 10 + s.values[4],
              !.bound = "Lower",
              !.digit = "first_digit"]

\* the Upper confirm leaving the cursor on "rmp_digit"
ConfirmUpperKeepsCursor(s) ==
    [s EXCEPT !.bounds[1] = s.values[1] * 1000 + s.values[2] * 100
                              + s.values[3] * 10 + s.values[4],
              !.bound = "Lower",
              !.values = <<0, 0, 0, 0>>]

\* move_two_step on "rmp_digit" with the bound "Upper"
ConfirmUpper(s) ==
    [s EXCEPT !.bounds[1] = DigitsValue(s.values),
              !.bound = "Lower",
              !.values = <<0, 0, 0, 0>>,
              !.digit = "first_digit"]

\* the Lower confirm storing the digits in the slot of the upper bound
CaptureLowerFirstSlot(s) ==
    [s EXCEPT !.bounds[1] = s.values[1] * 1000 + s.values[2] * 100
                              + s.values[3] * 10 + s.values[4]]

\* move_two_step on "rmp_digit" with the bound "Lower", up to the test
CaptureLower(s) == [s EXCEPT !.bounds[2] = DigitsValue(s.values)]

\* move_two_step on a digit moving the cursor two entries on, around the list
NextDigitSkips(s) ==
    [s EXCEPT !.digit =
        two_step_digit_list[
            (((CHOOSE j \in 1..5 : two_step_digit_list[j] = s.digit) + 1) % 5) + 1]]

\* move_two_step on a digit: the cursor moves to the next entry of the list
NextDigit(s) ==
    [s EXCEPT !.digit = two_step_digit_list[DigitIndex(s.digit) + 1]]

\* print("TWO STEP BOUNDS ARE: ", self.new_two_step_bounds)
BoundsLine(bounds) == [text |-> "TWO STEP BOUNDS ARE: ", bounds |-> bounds]

\* change_widget(new_widget): the mode is stored, "Two-Step" restores the
\* defaults of the entry, and a redraw is requested
change_widget(new_widget) ==
    /\ call' = [op |-> "change_widget", arg |-> new_widget]
    /\ current_widget' = new_widget
    /\ SetSession(ChangeWidgetSession(Session, new_widget))
    /\ raised' = "none"
    /\ printed' = <<>>
    /\ update_requests' = 1
    /\ drawn' = <<>>
    /\ advances' = (IF new_widget = "Two-Step" THEN 0 ELSE advances)
    /\ UNCHANGED <<gaugeVars, menuVars>>

\* update_two_step(v)
update_two_step(v) ==
    /\ call' = [op |-> "update_two_step", arg |-> v]
    /\ SetSession(UpdateTwoStepSession(Session, v))
    /\ raised' = "none"
    /\ printed' = <<>>
    /\ update_requests' = 1
    /\ drawn' = <<>>
    /\ UNCHANGED <<gaugeVars, current_widget, advances, menuVars>>

\* move_two_step()
move_two_step ==
    /\ call' = [op |-> "move_two_step", arg |-> "none"]
    /\ raised' = "none"
    /\ IF Session.digit = "rmp_digit"
       THEN IF Session.bound = "Upper"
            THEN /\ SetSession(ConfirmUpper(Session))
                 /\ printed' = <<>>
                 /\ update_requests' = 1
                 /\ UNCHANGED current_widget
            ELSE IF Session.bound = "Lower"
            THEN IF BadBounds(CaptureLower(Session).bounds)
                 THEN /\ SetSession([CaptureLower(Session) EXCEPT !.bad_input = TRUE])
                      /\ printed' = <<>>
                      /\ update_requests' = 1
                      /\ UNCHANGED current_widget
                 ELSE \* self.change_widget("Competition"), then the print
                      /\ current_widget' = "Competition"
                      /\ SetSession(ChangeWidgetSession(CaptureLower(Session),
                                                        "Competition"))
                      /\ printed' = << BoundsLine(new_two_step_bounds') >>
                      /\ update_requests' = 2
            ELSE /\ printed' = << [text |-> "ERROR BAD self.two_step_bound",
                                   bounds |-> <<>>] >>
                 /\ update_requests' = 1
                 /\ UNCHANGED sectionVars
       ELSE /\ SetSession(NextDigit(Session))
            /\ printed' = <<>>
            /\ update_requests' = 1
            /\ UNCHANGED current_widget
    /\ drawn' = <<>>
    /\ advances' = advances + 1
    /\ UNCHANGED <<gaugeVars, menuVars>>

\* the cyclic distance of a digit from 0
DigitDistance(d) == IF 2 * d <= 10 THEN d ELSE 10 - d

\* the digits of a captured bound
BoundDigits(n) == << (n \div 1000) % 10, (n \div 100) % 10, (n \div 10) % 10, n % 10 >>

Effort(s) ==
    LET u == BoundDigits(s.bounds[1])
        d == s.values
    IN  DigitDistance(u[1]) + DigitDistance(u[2]) + DigitDistance(u[3])
          + DigitDistance(u[4]) + DigitDistance(d[1]) + DigitDistance(d[2])
          + DigitDistance(d[3]) + DigitDistance(d[4])

\* a Variable_Section just constructed, beside a gauge with the default max_value
InitTwoStep ==
    /\ gauge_class = "Temp_Gauge"
    /\ max_value = 300
    /\ value = 0
    /\ InitSection
    /\ InitTrace
    /\ DefaultMenu

NextTwoStep ==
    \/ \E v \in DigitMoves :
          /\ Effort(UpdateTwoStepSession(Session, v)) <= MaxEffort
          /\ update_two_step(v)
    \/ advances < MaxAdvances /\ move_two_step
    \/ \E new_widget \in WidgetInputs : change_widget(new_widget)

SpecTwoStep == InitTwoStep /\ [][NextTwoStep]_vars

\* the host enters digits, moves the cursor, and re-opens "Two-Step"
NextEntry ==
    \/ \E v \in DigitMoves :
          /\ Effort(UpdateTwoStepSession(Session, v)) <= MaxEntryEffort
          /\ update_two_step(v)
    \/ advances < MaxAdvances /\ move_two_step
    \/ change_widget("Two-Step")

SpecEntry == InitTwoStep /\ [][NextEntry]_vars

(***************************************************************************)
(* Variable_Section.paintEvent.                                            *)
(***************************************************************************)
\* str() of a digit
PyStr(d) == <<"0", "1", "2", "3", "4", "5", "6", "7", "8", "9">>[d + 1]

\* draw_Startup: the manual, one drawText
draw_Startup == << Cmd("drawText", "message", "HID Control Manual: ...") >>

\* draw_Error: the diagnostic, one drawText
draw_Error ==
    << Cmd("drawText", "message", "ERROR WITH VARIABLE WIDGET. PLEASE HELP! :(") >>

\* the title of draw_Two_Step
TwoStepTitle(s) ==
    IF s.bad_input THEN << Cmd("drawText", "title", "BAD BOUNDS REOPEN FROM MENU") >>
    ELSE IF s.bound = "Upper" THEN << Cmd("drawText", "title", "Upper 2-Step Bound") >>
    ELSE IF s.bound = "Lower" THEN << Cmd("drawText", "title", "Lower 2-Step Bound") >>
    ELSE <<>>

\* draw_Two_Step on the fields s: two background rectangles, the title, the
\* RPM label, the frame around the selected position, the four digits
draw_Two_Step(s) ==
    << Cmd("fillRect", "background", "grey"), Cmd("fillRect", "background", "white") >>
      \o TwoStepTitle(s)
      \o << Cmd("drawText", "label", "RPM") >>
      \o (IF \E i \in 1..Len(two_step_digit_list) : two_step_digit_list[i] = s.digit
          THEN << Cmd("drawRect", "cursor", s.digit) >>
          ELSE <<>>)
      \o << Cmd("drawText", "digit", PyStr(s.values[1])),
            Cmd("drawText", "digit", PyStr(s.values[2])),
            Cmd("drawText", "digit", PyStr(s.values[3])),
            Cmd("drawText", "digit", PyStr(s.values[4])) >>

\* what draw_Two_Step prints
TwoStepPrinted(s) ==
    (IF ~s.bad_input /\ s.bound \notin {"Upper", "Lower"}
     THEN << [text |-> "ERROR BAD 2 Step Bound", bounds |-> <<>>] >> ELSE <<>>)
      \o (IF \E i \in 1..Len(two_step_digit_list) : two_step_digit_list[i] = s.digit
          THEN <<>>
          ELSE << [text |-> "BAD INDEX ON 2 STEP SELECTOR", bounds |-> <<>>] >>)

\* a paintEvent that draws nothing for a mode it does not know
SectionDrawNoFallback(widget, s) ==
    IF widget = "Startup" THEN draw_Startup
    ELSE IF widget = "Two-Step" THEN draw_Two_Step(s)
    ELSE <<>>

\* the if / elif chain of paintEvent on current_widget
SectionDraw(widget, s) ==
    IF widget = "Startup" THEN draw_Startup
    ELSE IF widget = "Competition" THEN <<>>
    ELSE IF widget = "Rear Steer" THEN <<>>
    ELSE IF widget = "Two-Step" THEN draw_Two_Step(s)
    ELSE IF widget = "Lap Time" THEN <<>>
    ELSE draw_Error

\* a draw_Two_Step that takes the invalid flag back once it has shown it
DrawTwoStepClearsFlag(s) == [s EXCEPT !.bad_input = FALSE]

\* the two-step fields after draw_Two_Step on the fields s: it reads them
\* and assigns none
DrawTwoStepSession(s) == s

\* Variable_Section.paintEvent
VariableSectionPaint ==
    /\ call' = [op |-> "paintEvent", arg |-> "Variable_Section"]
    /\ drawn' = SectionDraw(current_widget, Session)
    /\ printed' = IF current_widget = "Two-Step" THEN TwoStepPrinted(Session) ELSE <<>>
    /\ SetSession(IF current_widget = "Two-Step" THEN DrawTwoStepSession(Session)
                                                ELSE Session)
    /\ raised' = "none"
    /\ update_requests' = 0
    /\ UNCHANGED <<gaugeVars, current_widget, advances, menuVars>>

\* a Variable_Section just constructed, the widget the host drives
InitVariableSection ==
    /\ gauge_class = "Variable_Section"
    /\ max_value = 0
    /\ value = 0
    /\ InitSection
    /\ InitTrace
    /\ DefaultMenu

\* the handlers of Variable_Section and its paintEvent
NextSection ==
    \/ NextTwoStep
    \/ VariableSectionPaint

\* the host drives one widget, a gauge or the Variable_Section: the widgets
\* share no state
InitWidgets == InitGauge \/ InitVariableSection

NextWidgets ==
    \/ gauge_class \in GaugeClasses /\ NextGauge
    \/ gauge_class = "Variable_Section" /\ NextSection

SpecWidgets == InitWidgets /\ [][NextWidgets]_vars

(***************************************************************************)
(* Menu.                                                                   *)
(***************************************************************************)
\* the names a Menu is constructed with
ModeNames == {"Startup", "Two-Step", "Lap Time"}

\* the lists of at most MaxModes names, repetitions and the empty list included
ModesInputs == UNION { [1..n -> ModeNames] : n \in 0..MaxModes }

\* update_value is called with +1 (right) or -1 (left)
MenuMoves == {0 - 1, 1}

\* x in list
Contains(list, x) == \E i \in 1..Len(list) : list[i] = x

\* list.index(x), counted from 0: the first position that holds x
ListIndex(list, x) ==
    CHOOSE i \in 0..(Len(list) - 1) :
        /\ list[i + 1] = x
        /\ \A j \in 0..(i - 1) : list[j + 1] # x

\* an indexing that takes no negative index
ValidIndexNonNegative(list, i) == 0 <= i /\ i < Len(list)

\* list[i] raises IndexError unless -len(list) <= i < len(list)
ValidIndex(list, i) == 0 - Len(list) <= i /\ i < Len(list)

\* list[i] with a valid index: a negative index counts from the end
PyItem(list, i) == IF i >= 0 THEN list[i + 1] ELSE list[Len(list) + i + 1]

\* Menu.__init__ with a list of modes: the state is "Startup" whatever the list
InitMenu ==
    /\ gauge_class = "Menu"
    /\ max_value = 0
    /\ value = 0
    /\ InitSection
    /\ InitTrace
    /\ modes \in ModesInputs
    /\ num_of_modes = Len(modes)
    /\ state = "Startup"

\* Menu.update_value(move_value): index() raises ValueError when the state is
\* not in the list, the indexing raises IndexError below -len(modes)
Menu_update_value(move_value) ==
    /\ call' = [op |-> "Menu.update_value", arg |-> move_value]
    /\ IF ~Contains(modes, state)
       THEN /\ raised' = "ValueError"
            /\ update_requests' = 0
            /\ UNCHANGED state
       ELSE IF ListIndex(modes, state) + move_value < num_of_modes
       THEN IF ValidIndex(modes, ListIndex(modes, state) + move_value)
            THEN /\ state' = PyItem(modes, ListIndex(modes, state) + move_value)
                 /\ raised' = "none"
                 /\ update_requests' = 1
            ELSE /\ raised' = "IndexError"
                 /\ update_requests' = 0
                 /\ UNCHANGED state
       ELSE /\ state' = PyItem(modes, 0)
            /\ raised' = "none"
            /\ update_requests' = 1
    /\ printed' = <<>>
    /\ drawn' = <<>>
    /\ UNCHANGED <<gaugeVars, sectionVars, advances, modes, num_of_modes>>

NextMenu == \E move_value \in MenuMoves : Menu_update_value(move_value)

SpecMenu == InitMenu /\ [][NextMenu]_vars

(***************************************************************************)
(* Properties of the gauges, checked under SpecGauge.                      *)
(***************************************************************************)
\* C1: a gauge constructed with max_value > 0 keeps 0 <= value <= max_value
\* after any sequence of add_to_value and update_value calls, negative
\* arguments included.
C1_ValueInRange ==
    max_value > 0 => (0 <= value /\ value <= max_value)

\* add_to_value with a negative change has wrapped the value below 0 around
C1_Witness ==
    /\ max_value > 1
    /\ call.op = "add_to_value"
    /\ call.arg < 0
    /\ value = max_value

\* C9: no gauge with max_value <= 0 exists, so no add_to_value, update_value
\* or paintEvent divides by zero.
C9_NoNonPositiveGauge ==
    /\ max_value > 0
    /\ raised # "ZeroDivisionError"

\* the fill arcs of the last paintEvent, as spans in degrees
FillArcSpans ==
    { Frac(drawn[i].arg.num, 16 * drawn[i].arg.den) :
        i \in { j \in DOMAIN drawn : drawn[j].layer = "fill" /\ drawn[j].op = "drawArc" } }

\* -(value / (max_value*0.5)) * 90
RawSpan == Frac((0 - 180) * value, max_value)

QuarterTurn == Frac(0 - 90, 1)

\* C10: for 0 <= value <= max_value the Tachometer draws one fill arc, of
\* max(-(value / (max_value*0.5)) * 90, -90) degrees: never below -90, and
\* exactly -90 from half scale on.
C10_ArcClamp ==
    (call.op = "paintEvent" /\ call.arg = "Tachometer" /\ max_value > 0) =>
        /\ Cardinality(FillArcSpans) = 1
        /\ \A span \in FillArcSpans :
              /\ ~FracLess(span, QuarterTurn)
              /\ (2 * value >= max_value => FracEq(span, QuarterTurn))
              /\ FracEq(span, IF FracLess(RawSpan, QuarterTurn) THEN QuarterTurn
                                                                 ELSE RawSpan)

\* the Tachometer at full scale has been painted with a saturated arc
C10_Witness ==
    /\ call.op = "paintEvent"
    /\ call.arg = "Tachometer"
    /\ max_value > 1
    /\ value = max_value
    /\ \E span \in FillArcSpans : FracEq(span, QuarterTurn)

(***************************************************************************)
(* Properties of the two-step entry, checked under SpecTwoStep unless      *)
(* stated otherwise.                                                       *)
(***************************************************************************)
\* the cursor is on the RPM label, the confirm position
OnConfirm == selected_two_step_digit = "rmp_digit"

\* the value of the digits on screen, most significant digit first
EnteredValue ==
    two_step_current_digit_values[1] * 1000 + two_step_current_digit_values[2] * 100
      + two_step_current_digit_values[3] * 10 + two_step_current_digit_values[4]

\* C2: move_two_step on the confirm position in the Lower phase captures the
\* lower bound and commits (switches to "Competition" and prints the pair)
\* exactly when lower < upper; for lower >= upper, equality included, it
\* sets two_step_bad_input and does not commit.
C2_CommitIffStrictlyLess ==
    [][ (OnConfirm /\ two_step_bound = "Lower" /\ call'.op = "move_two_step") =>
          /\ new_two_step_bounds' = <<new_two_step_bounds[1], EnteredValue>>
          /\ (EnteredValue < new_two_step_bounds[1]) =>
                /\ current_widget' = "Competition"
                /\ printed' # <<>>
                /\ ~two_step_bad_input'
          /\ (EnteredValue >= new_two_step_bounds[1]) =>
                /\ two_step_bad_input'
                /\ printed' = <<>>
                /\ current_widget' = current_widget
      ]_vars

\* a Lower confirm has rejected a pair of equal, non-zero bounds
C2_Witness ==
    /\ call.op = "move_two_step"
    /\ two_step_bad_input
    /\ new_two_step_bounds[1] > 0
    /\ new_two_step_bounds[2] = new_two_step_bounds[1]

\* the two-step fields have their initial values
SessionCleared ==
    /\ new_two_step_bounds = <<0, 0>>
    /\ selected_two_step_digit = "first_digit"
    /\ two_step_bound = "Upper"
    /\ two_step_current_digit_values = <<0, 0, 0, 0>>
    /\ two_step_bad_input = FALSE

\* the handler called in this step is the reset, change_widget("Two-Step")
ResetStep == call'.op = "change_widget" /\ call'.arg = "Two-Step"

\* C3: once two_step_bad_input is set, update_two_step and move_two_step
\* leave the flag, the digits, the cursor, the bound phase and the captured
\* bounds as they are, and only change_widget("Two-Step") clears the flag.
C3_InvalidIsSticky ==
    [][ two_step_bad_input =>
          /\ (call'.op \in {"update_two_step", "move_two_step"}) =>
                UNCHANGED sessionVars
          /\ ~two_step_bad_input' => ResetStep
      ]_vars

\* update_two_step has been called on an invalid session
C3_Witness ==
    /\ two_step_bad_input
    /\ call.op = "update_two_step"

\* C5: move_two_step on the confirm position in the Upper phase stores
\* d[0]*1000 + d[1]*100 + d[2]*10 + d[3] as the upper bound, clears the
\* digits, switches to the Lower phase with the cursor on the first digit,
\* and leaves the invalid flag and the captured lower bound alone.
C5_UpperConfirm ==
    [][ (OnConfirm /\ two_step_bound = "Upper" /\ call'.op = "move_two_step") =>
          /\ new_two_step_bounds'[1] = EnteredValue
          /\ new_two_step_bounds'[2] = new_two_step_bounds[2]
          /\ two_step_current_digit_values' = <<0, 0, 0, 0>>
          /\ two_step_bound' = "Lower"
          /\ selected_two_step_digit' = "first_digit"
          /\ two_step_bad_input' = two_step_bad_input
          /\ printed' = <<>>
      ]_vars

\* an Upper confirm has just captured a non-zero upper bound
C5_Witness ==
    /\ call.op = "move_two_step"
    /\ two_step_bound = "Lower"
    /\ selected_two_step_digit = "first_digit"
    /\ new_two_step_bounds[1] > 0
    /\ two_step_current_digit_values = <<0, 0, 0, 0>>

\* C6: a pair is printed only by move_two_step on the confirm position in
\* the Lower phase with lower < upper; what is printed is the one pair
\* (captured upper, captured lower).
C6_EmitOnlyOnValidLowerConfirm ==
    [][ printed' # <<>> =>
          /\ call'.op = "move_two_step"
          /\ OnConfirm
          /\ two_step_bound = "Lower"
          /\ EnteredValue < new_two_step_bounds[1]
          /\ Len(printed') = 1
          /\ printed'[1].bounds = new_two_step_bounds'
          /\ printed'[1].bounds = <<new_two_step_bounds[1], EnteredValue>>
          /\ printed'[1].bounds[2] < printed'[1].bounds[1]
      ]_vars

\* a pair has been printed
C6_Witness ==
    /\ printed # <<>>
    /\ printed[1].bounds[1] > printed[1].bounds[2]
    /\ printed[1].bounds[2] > 0

\* C7: change_widget("Two-Step") from any state gives Upper / first digit,
\* digits [0,0,0,0], bounds [0,0] and the invalid flag cleared.
C7_ResetClears ==
    [][ ResetStep => (SessionCleared' /\ current_widget' = "Two-Step") ]_vars

\* the reset has been called
C7_Witness ==
    /\ call.op = "change_widget"
    /\ call.arg = "Two-Step"
    /\ current_widget = "Two-Step"
    /\ SessionCleared

\* C4 as stated (under SpecEntry): from a fresh session, digits 0,1,0,0
\* confirmed as the upper bound capture 1000; digits 0,0,5,0 then confirmed
\* as the lower bound capture 50, the widget switches to "Competition" and
\* the pair [1000, 50] is printed.
C4_CommitExampleAsStated ==
    [][ /\ ( /\ OnConfirm
             /\ two_step_bound = "Upper"
             /\ two_step_current_digit_values = <<0, 1, 0, 0>>
             /\ call'.op = "move_two_step" ) =>
                /\ new_two_step_bounds' = <<1000, 0>>
                /\ two_step_bound' = "Lower"
                /\ printed' = <<>>
        /\ ( /\ OnConfirm
             /\ two_step_bound = "Lower"
             /\ new_two_step_bounds[1] = 1000
             /\ two_step_current_digit_values = <<0, 0, 5, 0>>
             /\ call'.op = "move_two_step" ) =>
                /\ new_two_step_bounds' = <<1000, 50>>
                /\ ~two_step_bad_input'
                /\ current_widget' = "Competition"
                /\ printed' = << [text |-> "TWO STEP BOUNDS ARE: ",
                                  bounds |-> <<1000, 50>>] >>
      ]_vars

\* C4 as amended (under SpecEntry): from a fresh session, digits 0,1,0,0
\* confirmed as the upper bound capture 100; digits 0,0,5,0 then confirmed
\* as the lower bound capture 50, the widget switches to "Competition" and
\* the pair [100, 50] is printed.
C4_CommitExample ==
    [][ /\ ( /\ OnConfirm
             /\ two_step_bound = "Upper"
             /\ two_step_current_digit_values = <<0, 1, 0, 0>>
             /\ call'.op = "move_two_step" ) =>
                /\ new_two_step_bounds' = <<100, 0>>
                /\ two_step_bound' = "Lower"
                /\ printed' = <<>>
        /\ ( /\ OnConfirm
             /\ two_step_bound = "Lower"
             /\ new_two_step_bounds[1] = 100
             /\ two_step_current_digit_values = <<0, 0, 5, 0>>
             /\ call'.op = "move_two_step" ) =>
                /\ new_two_step_bounds' = <<100, 50>>
                /\ ~two_step_bad_input'
                /\ current_widget' = "Competition"
                /\ printed' = << [text |-> "TWO STEP BOUNDS ARE: ",
                                  bounds |-> <<100, 50>>] >>
      ]_vars

\* the lower confirm of the example has run: the digits on screen are still
\* 0,0,5,0 and the pair [100, 50] has been printed
C4_Witness ==
    /\ call.op = "move_two_step"
    /\ OnConfirm
    /\ two_step_bound = "Lower"
    /\ two_step_current_digit_values = <<0, 0, 5, 0>>
    /\ new_two_step_bounds = <<100, 50>>
    /\ current_widget = "Competition"
    /\ printed = << [text |-> "TWO STEP BOUNDS ARE: ", bounds |-> <<100, 50>>] >>

\* the two-step mode is left in this step
LeavesTwoStep == current_widget = "Two-Step" /\ current_widget' # "Two-Step"

\* C8 as stated: when the two-step mode is left, by change_widget(m) with
\* m # "Two-Step" or by the switch to "Competition" on commit, the digits,
\* the cursor, the bound phase, the captured bounds and the invalid flag
\* get their initial values.
C8_ResetOnLeave ==
    [][ LeavesTwoStep => SessionCleared' ]_vars

\* C8 as amended: leaving the two-step mode resets nothing. change_widget(m)
\* with m # "Two-Step" leaves all two-step fields as they are, and the
\* commit leaves them as the Lower confirm set them (the lower bound stored,
\* digits, cursor, phase and flag untouched).
C8_LeaveKeepsSession ==
    [][ /\ (call'.op = "change_widget" /\ call'.arg # "Two-Step") =>
              (current_widget' = call'.arg /\ UNCHANGED sessionVars)
        /\ (call'.op = "move_two_step" /\ printed' # <<>>) =>
              /\ current_widget' = "Competition"
              /\ new_two_step_bounds' = <<new_two_step_bounds[1], EnteredValue>>
              /\ UNCHANGED <<selected_two_step_digit, two_step_bound,
                             two_step_current_digit_values, two_step_value_up,
                             two_step_bad_input>>
      ]_vars

\* the mode has been changed away from "Two-Step" with an invalid session,
\* which is still invalid
C8_Witness ==
    /\ call.op = "change_widget"
    /\ call.arg # "Two-Step"
    /\ current_widget = call.arg
    /\ two_step_bad_input
    /\ OnConfirm
    /\ two_step_bound = "Lower"

(***************************************************************************)
(* Further properties of the gauges.                                       *)
(***************************************************************************)
\* C11 (under SpecGauge): on a gauge with max_value > 0, add_to_value calls
\* whose changes sum to a multiple of max_value + 1, positive, negative or
\* zero, leave value where it was before the first of them.
C11_WrapReturns ==
    (max_value > 0 /\ added % (max_value + 1) = 0) => value = base_value

\* add_to_value calls with a negative, non-zero sum have brought a non-zero
\* value back to where it started
C11_Witness ==
    /\ max_value > 1
    /\ call.op = "add_to_value"
    /\ added < 0
    /\ added % (max_value + 1) = 0
    /\ base_value > 0
    /\ value = base_value

\* the numbers of the tick labels of the last paintEvent, in drawing order
TickLabels == SelectSeq(drawn, LAMBDA c : c.layer = "label")

\* l is n / d cut off toward zero, d > 0
IsTruncation(l, n, d) ==
    IF n >= 0 THEN d * l <= n /\ n < d * (l + 1)
              ELSE n <= d * l /\ d * (l - 1) < n

\* C12 (under SpecTicks): Temp_Gauge and Tachometer label the ticks at 5/5,
\* 4/5, 3/5, 2/5, 1/5 and 0/5 of full scale, in this order, each with the
\* integer that is max_value * k / 5 cut off toward zero; for max_value = 300
\* the label at 3/5 is 180.
C12_TickLabelsTruncate ==
    (call.op = "paintEvent" /\ raised = "none") =>
        /\ Len(TickLabels) = 6
        /\ \A k \in 0..5 :
              /\ TickLabels[6 - k].arg.den = 1
              /\ IsTruncation(TickLabels[6 - k].arg.num, max_value * k, 5)
        /\ max_value = 300 => TickLabels[3].arg.num = 180

\* a gauge whose scale does not divide by 5 has been painted, and so has one
\* with max_value = 300
C12_Witness ==
    /\ call.op = "paintEvent"
    /\ raised = "none"
    /\ max_value = 300
    /\ Len(TickLabels) = 6
    /\ TickLabels[3].arg.num = 180

\* a painted gauge whose labels are not whole fifths
C12_WitnessTruncated ==
    /\ call.op = "paintEvent"
    /\ raised = "none"
    /\ max_value = 3
    /\ Len(TickLabels) = 6
    /\ TickLabels[3].arg.num = 1

(***************************************************************************)
(* Properties of rendering, checked under SpecWidgets.                     *)
(***************************************************************************)
\* C13: a paintEvent on any widget leaves value, max_value, the mode and all
\* two-step fields unchanged, and a paintEvent that follows a paintEvent with
\* no handler in between issues the same draw commands again.
C13_RenderIdempotent ==
    [][ call'.op = "paintEvent" =>
          /\ value' = value
          /\ max_value' = max_value
          /\ current_widget' = current_widget
          /\ new_two_step_bounds' = new_two_step_bounds
          /\ selected_two_step_digit' = selected_two_step_digit
          /\ two_step_bound' = two_step_bound
          /\ two_step_current_digit_values' = two_step_current_digit_values
          /\ two_step_value_up' = two_step_value_up
          /\ two_step_bad_input' = two_step_bad_input
          /\ (call.op = "paintEvent" => drawn' = drawn)
      ]_vars

\* the entry screen has been painted with the invalid flag set and digits entered
C13_Witness ==
    /\ call.op = "paintEvent"
    /\ call.arg = "Variable_Section"
    /\ current_widget = "Two-Step"
    /\ two_step_bad_input
    /\ two_step_current_digit_values # <<0, 0, 0, 0>>
    /\ Len(drawn) = 9

\* the modes paintEvent knows
RecognisedModes == {"Startup", "Competition", "Rear Steer", "Two-Step", "Lap Time"}

\* C14: change_widget stores a selector that is none of "Startup",
\* "Competition", "Rear Steer", "Two-Step", "Lap Time" as the mode, and a
\* paintEvent in such a mode draws the error message of draw_Error, one
\* drawText, and raises nothing.
C14_UnknownModeShowsError ==
    /\ [][ (call'.op = "change_widget" /\ call'.arg \notin RecognisedModes) =>
              (current_widget' = call'.arg /\ raised' = "none") ]_vars
    /\ [](  (call.op = "paintEvent" /\ call.arg = "Variable_Section"
                /\ current_widget \notin RecognisedModes) =>
              /\ raised = "none"
              /\ drawn = << [op |-> "drawText", layer |-> "message",
                             arg |-> "ERROR WITH VARIABLE WIDGET. PLEASE HELP! :("] >> )

\* the Variable_Section has been painted in a mode it does not know
C14_Witness ==
    /\ call.op = "paintEvent"
    /\ call.arg = "Variable_Section"
    /\ current_widget = "Diagnostics"
    /\ Len(drawn) = 1

\* the handlers that assign fields
MutationEntryPoints ==
    {"add_to_value", "update_value", "update_two_step", "move_two_step", "change_widget"}

\* C15: add_to_value, update_value, update_two_step, move_two_step (on every
\* branch) and change_widget have called self.update() at least once when
\* they return, and no step changes value, max_value, the mode or a two-step
\* field without a call of self.update() in the same handler.
C15_MutationRequestsRedraw ==
    /\ []( (call.op \in MutationEntryPoints /\ raised = "none") => update_requests >= 1 )
    /\ [][ ( \/ value' # value
             \/ max_value' # max_value
             \/ current_widget' # current_widget
             \/ new_two_step_bounds' # new_two_step_bounds
             \/ selected_two_step_digit' # selected_two_step_digit
             \/ two_step_bound' # two_step_bound
             \/ two_step_current_digit_values' # two_step_current_digit_values
             \/ two_step_value_up' # two_step_value_up
             \/ two_step_bad_input' # two_step_bad_input )
           => update_requests' >= 1 ]_vars

\* move_two_step has committed a pair: change_widget("Competition") and
\* move_two_step itself have each requested a redraw
C15_Witness ==
    /\ call.op = "move_two_step"
    /\ current_widget = "Competition"
    /\ new_two_step_bounds[1] > new_two_step_bounds[2]
    /\ printed # <<>>
    /\ update_requests = 2

(***************************************************************************)
(* The order of the draw commands of a gauge, checked under SpecGauge.     *)
(***************************************************************************)
\* the layers the order is stated for
GaugeLayers == {"backing", "fill", "tick", "label", "value_text"}

\* the positions of the last paintEvent's commands that belong to these layers
Layered == { i \in DOMAIN drawn : drawn[i].layer \in GaugeLayers }

\* backing, fill, tick marks, tick labels, value text: five layers
StatedRank(layer) ==
    CASE layer = "backing" -> 1
      [] layer = "fill" -> 2
      [] layer = "tick" -> 3
      [] layer = "label" -> 4
      [] layer = "value_text" -> 5

\* backing, fill, tick marks with their labels, value text: four layers
ScaleRank(layer) ==
    CASE layer = "backing" -> 1
      [] layer = "fill" -> 2
      [] layer = "tick" -> 3
      [] layer = "label" -> 3
      [] layer = "value_text" -> 4

\* C16 as stated: the commands of a gauge's paintEvent appear as the backing,
\* then the fill, then all tick marks, then all tick labels, then the value
\* text; no tick mark after a tick label, no fill after a tick mark.
C16_LayeringAsStated ==
    call.op = "paintEvent" =>
        \A i, j \in Layered :
            i < j => StatedRank(drawn[i].layer) <= StatedRank(drawn[j].layer)

\* C16 (amended): the commands of the paintEvent of a Temp_Gauge, Tachometer
\* or Fuel_Gauge appear as the backing first, then the fill, then the tick
\* marks with the tick labels among them, each label directly after a tick
\* mark, then the value text: no fill after a tick mark or a label, no tick
\* mark or label after the value text; tick marks do follow earlier labels.
C16_LayeringInterleaved ==
    (call.op = "paintEvent" /\ call.arg \in {"Temp_Gauge", "Tachometer", "Fuel_Gauge"}) =>
        /\ drawn[1].layer = "backing"
        /\ \A i, j \in Layered :
              i < j => ScaleRank(drawn[i].layer) <= ScaleRank(drawn[j].layer)
        /\ \A i \in DOMAIN drawn :
              drawn[i].layer = "label" => (i > 1 /\ drawn[i - 1].layer = "tick")
        /\ raised = "none" =>
              /\ Cardinality({ i \in DOMAIN drawn : drawn[i].layer = "value_text" }) = 1
              /\ \E i, j \in DOMAIN drawn :
                    i < j /\ drawn[i].layer = "label" /\ drawn[j].layer = "tick"

\* a Tachometer past half scale has been painted: two backing commands, two
\* fill commands, eleven tick marks and six labels, the value text
C16_Witness ==
    /\ call.op = "paintEvent"
    /\ call.arg = "Tachometer"
    /\ raised = "none"
    /\ max_value > 0
    /\ 2 * value > max_value
    /\ Len(drawn) = 22
    /\ drawn[4].layer = "fill"
    /\ drawn[5].layer = "tick"

(***************************************************************************)
(* The cursor, the digits and the bound phase of the two-step entry.       *)
(***************************************************************************)
\* C17 (under SpecTwoStep): the bound phase is "Upper" or "Lower"; it goes
\* from "Upper" to "Lower" only by move_two_step on the confirm position; and
\* once it is "Lower", every handler but change_widget("Two-Step") leaves it
\* "Lower" and leaves the captured upper bound as it is.
C17_LowerIsTerminal ==
    /\ [](two_step_bound \in {"Upper", "Lower"})
    /\ [][ /\ (two_step_bound = "Upper" /\ two_step_bound' = "Lower") =>
                (call'.op = "move_two_step" /\ OnConfirm)
           /\ (two_step_bound = "Lower" /\ ~ResetStep) =>
                /\ two_step_bound' = "Lower"
                /\ new_two_step_bounds'[1] = new_two_step_bounds[1]
       ]_vars

\* a Lower confirm has stored a lower bound that differs from the captured
\* upper bound
C17_Witness ==
    /\ call.op = "move_two_step"
    /\ two_step_bound = "Lower"
    /\ new_two_step_bounds[1] > 0
    /\ new_two_step_bounds[2] > 0
    /\ new_two_step_bounds[2] # new_two_step_bounds[1]

\* the position after each digit, along D1, D2, D3, D4, Confirm
CursorSuccessor ==
    [first_digit |-> "second_digit", second_digit |-> "third_digit",
     third_digit |-> "forth_digit", forth_digit |-> "rmp_digit"]

\* C18 (under SpecTwoStep): move_two_step with the cursor on a digit moves
\* the cursor to the next position and leaves the digits, the bound phase,
\* the captured bounds, the invalid flag and the mode unchanged; the cursor
\* comes back to the first digit only by a confirm in the Upper phase or by
\* change_widget("Two-Step").
C18_AdvanceMovesCursorOnly ==
    [][ /\ (~OnConfirm /\ call'.op = "move_two_step") =>
              /\ selected_two_step_digit' = CursorSuccessor[selected_two_step_digit]
              /\ two_step_current_digit_values' = two_step_current_digit_values
              /\ two_step_bound' = two_step_bound
              /\ new_two_step_bounds' = new_two_step_bounds
              /\ two_step_bad_input' = two_step_bad_input
              /\ current_widget' = current_widget
              /\ printed' = <<>>
        /\ (selected_two_step_digit # "first_digit"
                /\ selected_two_step_digit' = "first_digit") =>
              \/ ResetStep
              \/ (call'.op = "move_two_step" /\ OnConfirm /\ two_step_bound = "Upper")
      ]_vars

\* the cursor has been moved onto the third digit of a lower bound being entered
C18_Witness ==
    /\ call.op = "move_two_step"
    /\ selected_two_step_digit = "third_digit"
    /\ two_step_bound = "Lower"
    /\ two_step_current_digit_values # <<0, 0, 0, 0>>
    /\ new_two_step_bounds[1] > 0

\* C19 (under SpecTwoStep): update_two_step leaves the cursor, the bound
\* phase, the captured bounds, the invalid flag and the mode unchanged, and
\* every digit but the one under the cursor; on the confirm position it
\* leaves all four digits unchanged.
C19_AdjustChangesOneDigit ==
    [][ call'.op = "update_two_step" =>
          /\ selected_two_step_digit' = selected_two_step_digit
          /\ two_step_bound' = two_step_bound
          /\ new_two_step_bounds' = new_two_step_bounds
          /\ two_step_bad_input' = two_step_bad_input
          /\ current_widget' = current_widget
          /\ (selected_two_step_digit # "first_digit" =>
                two_step_current_digit_values'[1] = two_step_current_digit_values[1])
          /\ (selected_two_step_digit # "second_digit" =>
                two_step_current_digit_values'[2] = two_step_current_digit_values[2])
          /\ (selected_two_step_digit # "third_digit" =>
                two_step_current_digit_values'[3] = two_step_current_digit_values[3])
          /\ (selected_two_step_digit # "forth_digit" =>
                two_step_current_digit_values'[4] = two_step_current_digit_values[4])
          /\ Len(two_step_current_digit_values') = 4
      ]_vars

\* the last digit has been changed next to digits that are not 0
C19_Witness ==
    /\ call.op = "update_two_step"
    /\ selected_two_step_digit = "forth_digit"
    /\ two_step_current_digit_values[3] # 0
    /\ two_step_current_digit_values[4] # 0

\* ten calls of update_two_step(1) in a row on the fields s
TenIncrements(s) ==
    LET Up(x) == UpdateTwoStepSession(x, 1)
    IN  Up(Up(Up(Up(Up(Up(Up(Up(Up(Up(s))))))))))

\* the digit named by a cursor position
CursorSlot ==
    [first_digit |-> 1, second_digit |-> 2, third_digit |-> 3, forth_digit |-> 4]

\* C20 (under SpecTwoStep): the four digits are always in 0..9 and both
\* captured bounds in 0..9999; update_two_step(delta) on a digit d stores
\* d + delta reduced into 0..9 (0 - 1 gives 9, 9 + 1 gives 0); and from every
\* state, with the cursor on any digit, ten update_two_step(1) calls give the
\* digits back as they were.
C20_DigitsWrap ==
    /\ []( /\ \A i \in 1..4 : two_step_current_digit_values[i] \in 0..9
           /\ \A b \in 1..2 : new_two_step_bounds[b] \in 0..9999
           /\ \A c \in {"first_digit", "second_digit", "third_digit", "forth_digit"} :
                 TenIncrements([Session EXCEPT !.digit = c]).values
                     = two_step_current_digit_values )
    /\ [][ (call'.op = "update_two_step" /\ ~OnConfirm) =>
              LET before == two_step_current_digit_values[CursorSlot[selected_two_step_digit]]
                  after == two_step_current_digit_values'[CursorSlot[selected_two_step_digit]]
                  sum == before + call'.arg
              IN  after = (IF sum > 9 THEN sum - 10 ELSE IF sum < 0 THEN sum + 10 ELSE sum)
       ]_vars

\* a digit has been decremented from 0 to 9 while another digit stands at 2
C20_Witness ==
    /\ call.op = "update_two_step"
    /\ call.arg < 0
    /\ selected_two_step_digit = "second_digit"
    /\ two_step_current_digit_values[2] = 9
    /\ two_step_current_digit_values[1] = 2

(***************************************************************************)
(* The end of a two-step session, checked under SpecTwoStep.               *)
(***************************************************************************)
\* C21 as stated: once move_two_step has committed a pair (printed it and
\* switched to "Competition"), a further move_two_step or update_two_step
\* prints nothing and changes no two-step field, so that the pair is printed
\* at most once between two calls of change_widget("Two-Step").
C21_EmitAtMostOnce ==
    [][ (printed # <<>> /\ current_widget = "Competition"
            /\ call'.op \in {"move_two_step", "update_two_step"}) =>
          /\ printed' = <<>>
          /\ new_two_step_bounds' = new_two_step_bounds
          /\ selected_two_step_digit' = selected_two_step_digit
          /\ two_step_bound' = two_step_bound
          /\ two_step_current_digit_values' = two_step_current_digit_values
          /\ two_step_bad_input' = two_step_bad_input
      ]_vars

\* C23: while the bound phase is "Lower" with a captured upper bound of 0,
\* no handler prints a pair or switches to "Competition" by a commit, every
\* confirm sets the invalid flag whatever the digits are, and only
\* change_widget("Two-Step") ends this.
C23_ZeroUpperNeverCommits ==
    [][ (two_step_bound = "Lower" /\ new_two_step_bounds[1] = 0) =>
          /\ printed' = <<>>
          /\ update_requests' < 2
          /\ (call'.op = "move_two_step" /\ OnConfirm) =>
                /\ two_step_bad_input'
                /\ current_widget' = current_widget
                /\ new_two_step_bounds' = <<0, EnteredValue>>
          /\ ~ResetStep => (two_step_bound' = "Lower" /\ new_two_step_bounds'[1] = 0)
      ]_vars

\* after an upper bound of 0 a lower bound that is not 0 has been rejected
C23_Witness ==
    /\ call.op = "move_two_step"
    /\ two_step_bound = "Lower"
    /\ new_two_step_bounds[1] = 0
    /\ new_two_step_bounds[2] > 0
    /\ two_step_bad_input
    /\ printed = <<>>

\* C22: counted from __init__ or from change_widget("Two-Step"), and whatever
\* update_two_step calls come in between, before the tenth move_two_step the
\* invalid flag is not set and no pair has been printed; the first five
\* advances belong to the Upper phase, the next five to the Lower phase; and
\* the tenth move_two_step sets the invalid flag or commits (prints the pair
\* and switches to "Competition").
C22_TenthAdvanceEnds ==
    /\ []( /\ advances < 10 => (~two_step_bad_input /\ printed = <<>>)
           /\ advances < 5 <=> two_step_bound = "Upper" )
    /\ [][ (call'.op = "move_two_step" /\ advances = 9) =>
              /\ advances' = 10
              /\ \/ (two_step_bad_input' /\ printed' = <<>>)
                 \/ (~two_step_bad_input' /\ printed' # <<>>
                        /\ current_widget' = "Competition")
       ]_vars

\* the tenth move_two_step has committed a pair entered with update_two_step
C22_Witness ==
    /\ call.op = "move_two_step"
    /\ advances = 10
    /\ printed # <<>>
    /\ current_widget = "Competition"
    /\ new_two_step_bounds[2] > 0
    /\ new_two_step_bounds[1] > new_two_step_bounds[2]

(***************************************************************************)
(* The Menu, checked under SpecMenu.                                       *)
(***************************************************************************)
\* the list has no entry twice and holds "Startup"
DistinctWithStartup ==
    /\ \A i, j \in 1..Len(modes) : modes[i] = modes[j] => i = j
    /\ \E i \in 1..Len(modes) : modes[i] = "Startup"

\* C24: for a Menu whose modes are distinct and include "Startup", the state
\* is always an entry of modes and no call raises; update_value(move) with
\* move = +1 or -1 takes the state at position i (counted from 0) to the entry
\* at position (i + move) mod n, from the last entry to the first and from
\* the first to the last.
C24_MenuCycles ==
    /\ []( DistinctWithStartup =>
              /\ raised = "none"
              /\ \E i \in 1..Len(modes) : modes[i] = state )
    /\ [][ (DistinctWithStartup /\ call'.op = "Menu.update_value") =>
              /\ raised' = "none"
              /\ \E i \in 1..Len(modes) :
                    /\ modes[i] = state
                    /\ state' = modes[((i - 1 + call'.arg) % Len(modes)) + 1]
       ]_vars

\* a Menu of three modes has been moved left from its first entry to its last
C24_Witness ==
    /\ call.op = "Menu.update_value"
    /\ call.arg < 0
    /\ modes = <<"Startup", "Two-Step", "Lap Time">>
    /\ state = "Lap Time"
    /\ raised = "none"

====
